---- MODULE Spec2Model ----
(***************************************************************************)
(* caddy2-radius-auth: the HTTPRadiusAuth authentication provider.         *)
(*                                                                         *)
(* State: the provider's configuration (Servers, Secret, Timeout,          *)
(* CacheTTL), its go-cache instance, the wall clock, and for every HTTP    *)
(* request in flight the position of Authenticate and of the goroutines    *)
(* that checkRadiusConcurrent starts (one per server, one closer, and the  *)
(* collecting loop of the caller).                                         *)
(*                                                                         *)
(* Strings that matter character by character (the decoded Basic           *)
(* credentials, the cache key) are sequences of one-character strings.     *)
(* The character "X" stands for a run of bytes longer than a RADIUS        *)
(* attribute can carry (more than 253 bytes), so that the error returns of *)
(* rfc2865.UserName_SetString / UserPassword_SetString are reachable with  *)
(* short sequences.  Time is counted in seconds.                           *)
(***************************************************************************)
EXTENDS Integers, Sequences, FiniteSets, TLC

\* ------------------------------------------------------------------ bounds
\* The clock stops advancing at MaxTime.
MaxTime == 2
\* Longest server list of the single-request specification SpecFan.
MaxServers == 3
\* Longest decoded credential string of the key specification SpecKey.
MaxHdrLen == 3
\* Longest server list of the fair specification SpecFanLive.
MaxLiveServers == 2
\* Longest server list of the setup specification SpecSetup.
MaxCfgServers == 2

\* --------------------------------------------------------- program values
CodeAccessAccept == 2
CodeAccessReject == 3
CodeAccessChallenge == 11

\* The HTTP requests served concurrently.
Calls == {1, 2}

\* The characters of the decoded credential strings.
Chars == {"a", ":", "X"}

VARIABLES
    \* HTTPRadiusAuth (caddyfile.go:122-130) and its life cycle
    phase,          \* "raw" (no configuration loaded yet) | "new" (loaded,
                    \* not provisioned) | "ready" | "failed"
    Servers, Secret, Timeout, CacheTTL,
    cache,          \* r.cache: [nil, defaultExpiration, items]
    now,            \* time.Now(), in seconds
    \* Authenticate, per request
    pc,             \* "idle" | "collect" | "returned" | "done"; "keyed" in SpecKey
    req,            \* the request's Authorization header
    user, pass, cacheKey,
    looked,         \* what the cache lookup found: "none" (no lookup),
                    \* "absent", "expired" or "hit"
    \* checkRadiusConcurrent, per request
    task,           \* the per-server goroutines: sequence of [st, res],
                    \* st "run" until the goroutine has finished
    ch,             \* the buffered result channel
    closed,         \* close(ch) has happened
    wg,             \* the WaitGroup counter
    hasAccessAccept, hasReject, serverResults,
    sent,           \* number of radius.Exchange calls made for the request
    arrived,        \* the goroutines (indices of r.Servers) in the order in
                    \* which their results were put on ch
    ret,            \* what checkRadiusConcurrent returned: [ok, err, items]
    authRet,        \* what Authenticate returned: [auth, status, id]
    finished        \* when checkRadiusConcurrent's return was handled, or -1

cfgVars == <<phase, Servers, Secret, Timeout, CacheTTL>>
reqVars == <<req, user, pass, cacheKey, looked>>
fanVars == <<task, ch, closed, wg, hasAccessAccept, hasReject, serverResults, sent,
            arrived>>
vars == <<phase, Servers, Secret, Timeout, CacheTTL, cache, now, pc, req, user,
          pass, cacheKey, looked, task, ch, closed, wg,
          hasAccessAccept, hasReject, serverResults, sent, arrived, ret, authRet,
          finished>>

\* ----------------------------------------------------------------- helpers
Range(s) == {s[i] : i \in 1..Len(s)}

EmptyMap == [k \in {} |-> 0]

\* All sequences over S of length at most n.
RECURSIVE SeqsUpTo(_, _)
SeqsUpTo(S, n) ==
    IF n = 0 THEN {<<>>}
    ELSE LET shorter == SeqsUpTo(S, n - 1)
         IN shorter \cup {Append(s, x) : s \in {t \in shorter : Len(t) = n - 1}, x \in S}

\* time.ParseDuration on the duration strings a configuration may carry:
\* [d, err].  The empty string and a string without a unit are errors.
ParseDuration(s) ==
    CASE s = "0s" -> [d |-> 0, err |-> FALSE]
      [] s = "1s" -> [d |-> 1, err |-> FALSE]
      [] s = "2s" -> [d |-> 2, err |-> FALSE]
      [] s = "3s" -> [d |-> 3, err |-> FALSE]
      [] s = "5s" -> [d |-> 5, err |-> FALSE]
      [] OTHER    -> [d |-> 0, err |-> TRUE]

\* net.SplitHostPort on the addresses a configuration may carry:
\* [host, port, err].  An address without a colon has no port.
SplitHostPort(addr) ==
    CASE addr = "s1:1812"  -> [host |-> "s1", port |-> "1812", err |-> FALSE]
      [] addr = "s2:1812"  -> [host |-> "s2", port |-> "1812", err |-> FALSE]
      [] addr = "s 1:1812" -> [host |-> "s 1", port |-> "1812", err |-> FALSE]
      [] addr = ":1812"    -> [host |-> "", port |-> "1812", err |-> FALSE]
      [] addr = "s1:"      -> [host |-> "s1", port |-> "", err |-> FALSE]
      [] OTHER             -> [host |-> "", port |-> "", err |-> TRUE]

\* strings.Contains(s, ":") and strings.Contains(host, " ") on these strings;
\* none of the hosts is an IP address (net.ParseIP gives nil).
ContainsColon(addr) == addr \in {"s1:1812", "s2:1812", "s 1:1812", ":1812", "s1:"}
ContainsSpace(host) == host = "s 1"

\* isValidServerAddr (caddyfile.go:185-194).
isValidServerAddr(addr) ==
    LET hp == SplitHostPort(addr)
    IN IF hp.err \/ hp.host = "" \/ hp.port = "" THEN FALSE
       ELSE IF ContainsSpace(hp.host) THEN FALSE
       ELSE TRUE

\* The test parseCaddyfile makes on an argument of `servers`
\* (caddyfile.go:43-49).
CaddyfileAddrOk(addr) ==
    LET hp == SplitHostPort(addr)
    IN ContainsColon(addr) /\ ~(hp.err \/ hp.host = "" \/ hp.port = "")

\* SelectSeq with the operator given inline: the valid servers, in order.
RECURSIVE ValidServers(_)
ValidServers(ss) ==
    IF ss = <<>> THEN <<>>
    ELSE IF isValidServerAddr(Head(ss))
         THEN <<Head(ss)>> \o ValidServers(Tail(ss))
         ELSE ValidServers(Tail(ss))

\* ------------------------------------------------------------ go-cache
\* r.cache == nil (caddyfile.go:164).
NilCache == [nil |-> TRUE, defaultExpiration |-> 0, items |-> EmptyMap]

\* cache.New(cacheTTL, time.Second) (caddyfile.go:162).
\* go-cache turns a default expiration of 0 into -1, "never expires".
cacheNew(d) ==
    [nil |-> FALSE, defaultExpiration |-> IF d = 0 THEN -1 ELSE d, items |-> EmptyMap]

\* Variant: an item is kept one second beyond its expiration.
ExpiredLate(item, t) == item.Expiration > 0 /\ t > item.Expiration + 1

\* Item.Expired as go-cache's Get and DeleteExpired test it.
Expired(item, t) == item.Expiration > 0 /\ t > item.Expiration

\* Variant: an item is not found any more at the very time it expires.
cacheGetEarly(c, k, t) ==
    IF k \in DOMAIN c.items /\ t < c.items[k].Expiration
    THEN [found |-> TRUE, val |-> c.items[k].Object]
    ELSE [found |-> FALSE, val |-> FALSE]

\* cache.Get (caddyfile.go:206): [found, val].
cacheGet(c, k, t) ==
    IF k \in DOMAIN c.items /\ ~Expired(c.items[k], t)
    THEN [found |-> TRUE, val |-> c.items[k].Object]
    ELSE [found |-> FALSE, val |-> FALSE]

\* Variant: a hit renews the item, as a store of the value found would.
cacheAfterGetTouch(c, k, t) ==
    IF k \in DOMAIN c.items /\ ~Expired(c.items[k], t)
    THEN [c EXCEPT !.items[k].Expiration = t + c.defaultExpiration]
    ELSE c

\* The cache after cache.Get (caddyfile.go:206): a lookup reads the map and
\* leaves it as it is, expired items included.
cacheAfterGet(c, k, t) == c

\* cache.SetDefault (caddyfile.go:225): insert or overwrite, expiring at
\* now + defaultExpiration; Expiration 0 is "never".
cacheSetDefault(c, k, v, t) ==
    [c EXCEPT !.items =
        [x \in DOMAIN c.items \cup {k} |->
            IF x = k
            THEN [Object |-> v,
                  Expiration |-> IF c.defaultExpiration > 0
                                 THEN t + c.defaultExpiration ELSE 0]
            ELSE c.items[x]]]

\* The janitor's DeleteExpired, started by cache.New with a one second
\* interval (caddyfile.go:162).
cacheDeleteExpired(c, t) ==
    [c EXCEPT !.items =
        [x \in {y \in DOMAIN c.items : ~Expired(c.items[y], t)} |-> c.items[x]]]

\* How a lookup of k at time t ends: no cache, no item, an item that has
\* expired but is still in the map, or a hit.
Lookup(c, k, t) ==
    IF c.nil THEN "none"
    ELSE IF k \notin DOMAIN c.items THEN "absent"
    ELSE IF Expired(c.items[k], t) THEN "expired"
    ELSE "hit"

\* --------------------------------------------------------- credentials
\* Index of the first ":" of cs, 0 when there is none.
FirstColon(cs) ==
    LET idx == {i \in 1..Len(cs) : cs[i] = ":"}
    IN IF idx = {} THEN 0 ELSE CHOOSE i \in idx : \A j \in idx : i <= j

\* req.BasicAuth() (caddyfile.go:198): the decoded credentials are cut at
\* the first colon; no header, or no colon, is not ok.
BasicAuth(r) ==
    IF ~r.present \/ FirstColon(r.cs) = 0
    THEN [user |-> <<>>, pass |-> <<>>, ok |-> FALSE]
    ELSE [user |-> SubSeq(r.cs, 1, FirstColon(r.cs) - 1),
          pass |-> SubSeq(r.cs, FirstColon(r.cs) + 1, Len(r.cs)),
          ok |-> TRUE]

\* Variant: the key is built without the separator.
CacheKeyNoSep(u, p) == u \o p

\* fmt.Sprintf("%s:%s", user, pass) (caddyfile.go:204).
CacheKey(u, p) == u \o <<":">> \o p

\* rfc2865.UserName_SetString / UserPassword_SetString (radius.go:24-31)
\* fail on a value longer than the attribute can carry.
TooLong(s) == "X" \in Range(s)

\* The first error of the packet construction, "nil" when there is none.
PacketError(u, p) ==
    IF TooLong(u) THEN "username"
    ELSE IF TooLong(p) THEN "password"
    ELSE "nil"

\* ------------------------------------------------- checkRadiusConcurrent
\* What one radius.Exchange can deliver under a deadline of `timeout`
\* (radius.go:48-55): the code of the response packet, which is whatever
\* the server put into it (Access-Accept, Access-Reject, another code such
\* as Access-Challenge, or 0), or an error with code 0.  A context whose
\* deadline is zero has expired before the exchange starts.
ExchangeOutcomes(timeout) ==
    IF timeout > 0
    THEN {[code |-> CodeAccessAccept, err |-> "nil"],
          [code |-> CodeAccessReject, err |-> "nil"],
          [code |-> CodeAccessChallenge, err |-> "nil"],
          [code |-> 0, err |-> "nil"],
          [code |-> 0, err |-> "err"]}
    ELSE {[code |-> 0, err |-> "err"]}

\* The tests of the collecting loop (radius.go:77-81).
IsAccept(res) == res.code = CodeAccessAccept
IsReject(res) == res.code = CodeAccessReject

\* Variant: the loop also stops at the first Access-Accept it has seen.
RangeDoneEarly(c) == hasAccessAccept[c] \/ (closed[c] /\ ch[c] = <<>>)

\* `for res := range ch` ends when ch is closed and drained (radius.go:71).
RangeDone(c) == closed[c] /\ ch[c] = <<>>

\* The capacity of ch: make(chan result, len(r.Servers)) (radius.go:41).
ChanCap == Len(Servers)

\* wg.Wait() returns (radius.go:60).
WaitDone(c) == wg[c] = 0

\* Variant: the message does not tell an error from a missing response.
ErrItemNoError(server, r) ==
    [server |-> server,
     kind |-> IF r.code # 0 THEN "unknown code" ELSE "no response"]

\* One item of the error message per key of serverResults (radius.go:96-104).
ErrItem(server, r) ==
    [server |-> server,
     kind |-> IF r.err # "nil" THEN "error"
              ELSE IF r.code # 0 THEN "unknown code"
              ELSE "no response"]

\* Variant: the Reject case is tested before the Accept case.
ResolveRejectFirst(acc, rej, results) ==
    IF rej THEN [ok |-> FALSE, err |-> "nil", items |-> {}]
    ELSE IF acc THEN [ok |-> TRUE, err |-> "nil", items |-> {}]
    ELSE [ok |-> FALSE, err |-> "issues",
          items |-> {ErrItem(s, results[s]) : s \in DOMAIN results}]

\* Variant: a transport error of any server outweighs a Reject.
ResolveErrFirst(acc, rej, results) ==
    IF acc THEN [ok |-> TRUE, err |-> "nil", items |-> {}]
    ELSE IF rej /\ \A s \in DOMAIN results : results[s].err = "nil"
    THEN [ok |-> FALSE, err |-> "nil", items |-> {}]
    ELSE [ok |-> FALSE, err |-> "issues",
          items |-> {ErrItem(s, results[s]) : s \in DOMAIN results}]

\* Variant: the third case reports a plain negative verdict.
ResolveSilent(acc, rej, results) ==
    IF acc THEN [ok |-> TRUE, err |-> "nil", items |-> {}]
    ELSE [ok |-> FALSE, err |-> "nil", items |-> {}]

\* The three cases after the loop (radius.go:84-106).
Resolve(acc, rej, results) ==
    IF acc THEN [ok |-> TRUE, err |-> "nil", items |-> {}]
    ELSE IF rej THEN [ok |-> FALSE, err |-> "nil", items |-> {}]
    ELSE [ok |-> FALSE, err |-> "issues",
          items |-> {ErrItem(s, results[s]) : s \in DOMAIN results}]

NoRet == [ok |-> FALSE, err |-> "none", items |-> {}]
NoAuthRet == [auth |-> FALSE, status |-> -1, id |-> <<>>]
NoReq == [present |-> FALSE, cs |-> <<>>]

NoRes == [code |-> 0, err |-> "nil", server |-> ""]

\* ------------------------------------------------------------- Provision
\* Variant: a cache is created whatever the TTL.
ProvisionedCacheAlways(d) == cacheNew(d)

\* The cache Provision installs for a TTL of d (caddyfile.go:161-165).
ProvisionedCache(d) == IF d > 0 THEN cacheNew(d) ELSE NilCache

\* Provision (caddyfile.go:140-182).  Every assignment made before a
\* failing return stays made.
Provision ==
    /\ phase = "new"
    /\ LET timeout1 == IF Timeout = "" THEN "3s" ELSE Timeout
           ttl1 == IF CacheTTL = "" THEN "0s" ELSE CacheTTL
           cacheTTL == ParseDuration(ttl1)
           valid == ValidServers(Servers)
       IN IF Len(Servers) = 0 \/ Secret = ""
          THEN /\ phase' = "failed"
               /\ UNCHANGED <<Servers, Timeout, CacheTTL, cache>>
          ELSE IF cacheTTL.err
          THEN /\ phase' = "failed"
               /\ Timeout' = timeout1
               /\ CacheTTL' = ttl1
               /\ UNCHANGED <<Servers, cache>>
          ELSE /\ Timeout' = timeout1
               /\ CacheTTL' = ttl1
               /\ cache' = ProvisionedCache(cacheTTL.d)
               /\ Servers' = valid
               /\ phase' = IF Len(valid) = 0 THEN "failed" ELSE "ready"
    /\ UNCHANGED <<Secret, now, pc, reqVars, fanVars, ret, authRet, finished>>

\* parseCaddyfile (caddyfile.go:28-101) on a radius_auth block given as
\* [servers, secret, timeout, cache_ttl]; an absent directive is <<>> or "".
\* The result is [err, ra], ra the HTTPRadiusAuth handed on as JSON.
parseCaddyfile(h) ==
    LET ra == [Servers |-> h.servers, Secret |-> h.secret,
               Timeout |-> h.timeout, CacheTTL |-> h.cache_ttl]
    IN IF \E i \in 1..Len(h.servers) : ~CaddyfileAddrOk(h.servers[i])
       THEN [err |-> TRUE, ra |-> ra]
       ELSE IF h.timeout # "" /\ ParseDuration(h.timeout).err
       THEN [err |-> TRUE, ra |-> ra]
       ELSE IF h.cache_ttl # "" /\ ParseDuration(h.cache_ttl).err
       THEN [err |-> TRUE, ra |-> ra]
       ELSE IF Len(ra.Servers) = 0 \/ ra.Secret = ""
       THEN [err |-> TRUE, ra |-> ra]
       ELSE [err |-> FALSE, ra |-> ra]

\* The configuration comes from a Caddyfile: parseCaddyfile fails, or the
\* module is loaded from the JSON it produced.
LoadCaddyfile(h) ==
    /\ phase = "raw"
    /\ LET got == parseCaddyfile(h)
       IN IF got.err
          THEN /\ phase' = "failed"
               /\ UNCHANGED <<Servers, Secret, Timeout, CacheTTL>>
          ELSE /\ phase' = "new"
               /\ Servers' = got.ra.Servers
               /\ Secret' = got.ra.Secret
               /\ Timeout' = got.ra.Timeout
               /\ CacheTTL' = got.ra.CacheTTL
    /\ UNCHANGED <<cache, now, pc, reqVars, fanVars, ret, authRet, finished>>

\* The configuration comes as JSON: the fields of HTTPRadiusAuth
\* (caddyfile.go:122-130) take whatever the document holds.
LoadJSON(cfg) ==
    /\ phase = "raw"
    /\ phase' = "new"
    /\ Servers' = cfg.Servers
    /\ Secret' = cfg.Secret
    /\ Timeout' = cfg.Timeout
    /\ CacheTTL' = cfg.CacheTTL
    /\ UNCHANGED <<cache, now, pc, reqVars, fanVars, ret, authRet, finished>>

\* ---------------------------------------------------------- Authenticate
\* The per-request variables of request c set by the first step.
SetReq(c, r, u, p, k, hit) ==
    /\ req' = [req EXCEPT ![c] = r]
    /\ user' = [user EXCEPT ![c] = u]
    /\ pass' = [pass EXCEPT ![c] = p]
    /\ cacheKey' = [cacheKey EXCEPT ![c] = k]
    /\ looked' = [looked EXCEPT ![c] = hit]

\* The goroutines of request c: one per entry of r.Servers, wg.Add(1) for
\* each (radius.go:41-57).
Launched == [i \in 1..Len(Servers) |-> [st |-> "run", res |-> NoRes]]

\* A request is served in the first free slot.
\* Authenticate up to the first point where it waits (caddyfile.go:198-217,
\* radius.go:19-62): the credentials, the cache lookup, and on a miss the
\* start of checkRadiusConcurrent: its early returns, or the fan-out.
Begin(c, r) ==
    /\ phase = "ready"
    /\ pc[c] = "idle"
    /\ \A d \in Calls : d < c => pc[d] # "idle"
    /\ LET ba == BasicAuth(r)
           key == CacheKey(ba.user, ba.pass)
           got == cacheGet(cache, key, now)
           how == Lookup(cache, key, now)
           perr == PacketError(ba.user, ba.pass)
       IN IF ~ba.ok
          THEN /\ SetReq(c, r, <<>>, <<>>, <<>>, "none")
               /\ pc' = [pc EXCEPT ![c] = "done"]
               /\ authRet' = [authRet EXCEPT ![c] = [auth |-> FALSE, status |-> 0, id |-> <<>>]]
               /\ UNCHANGED <<cache, fanVars, ret, finished>>
          ELSE IF ~cache.nil /\ got.found
          THEN /\ SetReq(c, r, ba.user, ba.pass, key, "hit")
               /\ pc' = [pc EXCEPT ![c] = "done"]
               /\ authRet' = [authRet EXCEPT ![c] =
                      IF got.val THEN [auth |-> TRUE, status |-> 0, id |-> ba.user]
                      ELSE [auth |-> FALSE, status |-> 401, id |-> <<>>]]
               /\ cache' = cacheAfterGet(cache, key, now)
               /\ UNCHANGED <<fanVars, ret, finished>>
          ELSE IF Len(Servers) = 0 \/ perr # "nil"
          THEN /\ SetReq(c, r, ba.user, ba.pass, key, how)
               /\ pc' = [pc EXCEPT ![c] = "returned"]
               /\ ret' = [ret EXCEPT ![c] =
                      [ok |-> FALSE,
                       err |-> IF Len(Servers) = 0 THEN "no servers" ELSE perr,
                       items |-> {}]]
               /\ cache' = IF cache.nil THEN cache ELSE cacheAfterGet(cache, key, now)
               /\ UNCHANGED <<fanVars, authRet, finished>>
          ELSE /\ SetReq(c, r, ba.user, ba.pass, key, how)
               /\ pc' = [pc EXCEPT ![c] = "collect"]
               /\ task' = [task EXCEPT ![c] = Launched]
               /\ wg' = [wg EXCEPT ![c] = Len(Servers)]
               /\ cache' = IF cache.nil THEN cache ELSE cacheAfterGet(cache, key, now)
               /\ UNCHANGED <<ch, closed, hasAccessAccept, hasReject,
                              serverResults, sent, arrived, ret, authRet, finished>>
    /\ UNCHANGED <<cfgVars, now>>

\* Variant: a goroutine whose exchange failed tries the server again
\* instead of delivering the error.
TaskRetry(c, i, out) ==
    /\ i \in DOMAIN task[c]
    /\ task[c][i].st = "run"
    /\ Len(ch[c]) < ChanCap
    /\ LET res == [code |-> out.code, err |-> out.err, server |-> Servers[i]]
       IN IF out.err # "nil"
          THEN UNCHANGED <<task, ch, arrived, wg>>
          ELSE /\ task' = [task EXCEPT ![c][i] = [st |-> "done", res |-> res]]
               /\ ch' = [ch EXCEPT ![c] = Append(@, res)]
               /\ arrived' = [arrived EXCEPT ![c] = Append(@, i)]
               /\ wg' = [wg EXCEPT ![c] = @ - 1]
    /\ sent' = [sent EXCEPT ![c] = @ + 1]
    /\ UNCHANGED <<cfgVars, cache, now, pc, reqVars, closed,
                   hasAccessAccept, hasReject, serverResults, ret, authRet, finished>>

\* One per-server goroutine (radius.go:46-56): the exchange under the
\* goroutine's own deadline, the result put on ch, and the deferred
\* wg.Done().  The goroutine goes on only when ch has room for its result.
Task(c, i, out) ==
    /\ i \in DOMAIN task[c]
    /\ task[c][i].st = "run"
    /\ Len(ch[c]) < ChanCap
    /\ LET res == [code |-> out.code, err |-> out.err, server |-> Servers[i]]
       IN /\ task' = [task EXCEPT ![c][i] = [st |-> "done", res |-> res]]
          /\ ch' = [ch EXCEPT ![c] = Append(@, res)]
    /\ sent' = [sent EXCEPT ![c] = @ + 1]
    /\ arrived' = [arrived EXCEPT ![c] = Append(@, i)]
    /\ wg' = [wg EXCEPT ![c] = @ - 1]
    /\ UNCHANGED <<cfgVars, cache, now, pc, reqVars, closed,
                   hasAccessAccept, hasReject, serverResults, ret, authRet, finished>>

\* Variant: the closer goroutine waits for the others and ends without
\* closing ch.
CloseForgotten(c) ==
    /\ task[c] # <<>>
    /\ ~closed[c]
    /\ WaitDone(c)
    /\ UNCHANGED vars

\* The closer goroutine (radius.go:59-62).
Close(c) ==
    /\ task[c] # <<>>
    /\ ~closed[c]
    /\ WaitDone(c)
    /\ closed' = [closed EXCEPT ![c] = TRUE]
    /\ UNCHANGED <<cfgVars, cache, now, pc, reqVars, task, ch, wg,
                   hasAccessAccept, hasReject, serverResults, sent, arrived, ret,
                   authRet, finished>>

\* Variant: the flags tell what the latest result was, not whether any
\* result so far was an Accept or a Reject.
RecvLastWins(c) ==
    /\ pc[c] = "collect"
    /\ ~RangeDone(c)
    /\ ch[c] # <<>>
    /\ LET res == Head(ch[c])
       IN /\ serverResults' = [serverResults EXCEPT ![c] =
                 [s \in DOMAIN @ \cup {res.server} |->
                     IF s = res.server THEN [code |-> res.code, err |-> res.err]
                     ELSE @[s]]]
          /\ hasAccessAccept' = [hasAccessAccept EXCEPT ![c] = IsAccept(res)]
          /\ hasReject' = [hasReject EXCEPT ![c] = ~IsAccept(res) /\ IsReject(res)]
    /\ ch' = [ch EXCEPT ![c] = Tail(@)]
    /\ UNCHANGED <<cfgVars, cache, now, pc, reqVars, task, closed, wg, sent,
                   arrived, ret, authRet, finished>>

\* One iteration of the collecting loop (radius.go:71-82).
Recv(c) ==
    /\ pc[c] = "collect"
    /\ ~RangeDone(c)
    /\ ch[c] # <<>>
    /\ LET res == Head(ch[c])
       IN /\ serverResults' = [serverResults EXCEPT ![c] =
                 [s \in DOMAIN @ \cup {res.server} |->
                     IF s = res.server THEN [code |-> res.code, err |-> res.err]
                     ELSE @[s]]]
          /\ hasAccessAccept' = [hasAccessAccept EXCEPT ![c] = @ \/ IsAccept(res)]
          /\ hasReject' = [hasReject EXCEPT ![c] = @ \/ (~IsAccept(res) /\ IsReject(res))]
    /\ ch' = [ch EXCEPT ![c] = Tail(@)]
    /\ UNCHANGED <<cfgVars, cache, now, pc, reqVars, task, closed, wg, sent,
                   arrived, ret, authRet, finished>>

\* The loop ends and checkRadiusConcurrent returns (radius.go:84-106).
LoopExit(c) ==
    /\ pc[c] = "collect"
    /\ RangeDone(c)
    /\ ret' = [ret EXCEPT ![c] =
           Resolve(hasAccessAccept[c], hasReject[c], serverResults[c])]
    /\ pc' = [pc EXCEPT ![c] = "returned"]
    /\ UNCHANGED <<cfgVars, cache, now, reqVars, fanVars, authRet, finished>>

\* Variant: the verdict is stored before the error is looked at.
StoredCacheOnError(c) ==
    IF ~cache.nil THEN cacheSetDefault(cache, cacheKey[c], ret[c].ok, now)
    ELSE cache

\* Variant: the verdict is never stored.
StoredCacheNever(c) == cache

\* Variant: the verdict is kept in one place shared by all requests, so
\* that a request may store what another request's fan-out resolved to.
StoredCacheShared(c) ==
    IF ret[c].err # "nil" THEN cache
    ELSE IF ~cache.nil THEN cacheSetDefault(cache, cacheKey[c], ret[1].ok, now)
    ELSE cache

\* The cache after Authenticate has handled the return of
\* checkRadiusConcurrent (caddyfile.go:218-226).
StoredCache(c) ==
    IF ret[c].err # "nil" THEN cache
    ELSE IF ~cache.nil THEN cacheSetDefault(cache, cacheKey[c], ret[c].ok, now)
    ELSE cache

\* Variant: the test of ok is missing, every return without error is a
\* success.
AnswerWithoutOk(c) ==
    IF ret[c].err # "nil" THEN [auth |-> FALSE, status |-> 500, id |-> <<>>]
    ELSE [auth |-> TRUE, status |-> 0, id |-> user[c]]

\* What Authenticate returns after checkRadiusConcurrent
\* (caddyfile.go:218-234).
Answer(c) ==
    IF ret[c].err # "nil" THEN [auth |-> FALSE, status |-> 500, id |-> <<>>]
    ELSE IF ~ret[c].ok THEN [auth |-> FALSE, status |-> 401, id |-> <<>>]
    ELSE [auth |-> TRUE, status |-> 0, id |-> user[c]]

\* The locals of checkRadiusConcurrent, gone when it has returned.
ClearFan(c) ==
    /\ task' = [task EXCEPT ![c] = <<>>]
    /\ ch' = [ch EXCEPT ![c] = <<>>]
    /\ closed' = [closed EXCEPT ![c] = FALSE]
    /\ wg' = [wg EXCEPT ![c] = 0]
    /\ hasAccessAccept' = [hasAccessAccept EXCEPT ![c] = FALSE]
    /\ hasReject' = [hasReject EXCEPT ![c] = FALSE]
    /\ serverResults' = [serverResults EXCEPT ![c] = EmptyMap]
    /\ arrived' = [arrived EXCEPT ![c] = <<>>]

\* Authenticate after checkRadiusConcurrent (caddyfile.go:218-234).
Finish(c) ==
    /\ pc[c] = "returned"
    /\ cache' = StoredCache(c)
    /\ authRet' = [authRet EXCEPT ![c] = Answer(c)]
    /\ finished' = [finished EXCEPT ![c] = now]
    /\ pc' = [pc EXCEPT ![c] = "done"]
    /\ ClearFan(c)
    /\ UNCHANGED <<cfgVars, now, reqVars, sent, ret>>

\* The request is over; its slot serves the next request.
Return(c) ==
    /\ pc[c] = "done"
    /\ pc' = [pc EXCEPT ![c] = "idle"]
    /\ req' = [req EXCEPT ![c] = NoReq]
    /\ user' = [user EXCEPT ![c] = <<>>]
    /\ pass' = [pass EXCEPT ![c] = <<>>]
    /\ cacheKey' = [cacheKey EXCEPT ![c] = <<>>]
    /\ looked' = [looked EXCEPT ![c] = "none"]
    /\ sent' = [sent EXCEPT ![c] = 0]
    /\ ret' = [ret EXCEPT ![c] = NoRet]
    /\ authRet' = [authRet EXCEPT ![c] = NoAuthRet]
    /\ finished' = [finished EXCEPT ![c] = -1]
    /\ UNCHANGED <<cfgVars, cache, now, task, ch, closed, wg,
                   hasAccessAccept, hasReject, serverResults, arrived>>

\* ------------------------------------------------------- clock and janitor
Tick ==
    /\ phase = "ready"
    /\ now < MaxTime
    /\ now' = now + 1
    /\ UNCHANGED <<cfgVars, cache, pc, reqVars, fanVars, ret, authRet, finished>>

\* go-cache's janitor removes the expired items (cache.New with a cleanup
\* interval, caddyfile.go:162).
Janitor ==
    /\ phase = "ready"
    /\ ~cache.nil
    /\ cacheDeleteExpired(cache, now) # cache
    /\ cache' = cacheDeleteExpired(cache, now)
    /\ UNCHANGED <<cfgVars, now, pc, reqVars, fanVars, ret, authRet, finished>>

\* ------------------------------------------------------------ the system
\* The deadline of every exchange (radius.go:33, 48).
timeout == ParseDuration(Timeout).d

InitWith(configs, reqs) ==
    /\ phase = "new"
    /\ \E cfg \in configs :
          /\ Servers = cfg.Servers
          /\ Secret = cfg.Secret
          /\ Timeout = cfg.Timeout
          /\ CacheTTL = cfg.CacheTTL
    /\ cache = NilCache
    /\ now = 0
    /\ pc = [c \in Calls |-> "idle"]
    /\ req \in reqs
    /\ user = [c \in Calls |-> <<>>]
    /\ pass = [c \in Calls |-> <<>>]
    /\ cacheKey = [c \in Calls |-> <<>>]
    /\ looked = [c \in Calls |-> "none"]
    /\ task = [c \in Calls |-> <<>>]
    /\ ch = [c \in Calls |-> <<>>]
    /\ closed = [c \in Calls |-> FALSE]
    /\ wg = [c \in Calls |-> 0]
    /\ hasAccessAccept = [c \in Calls |-> FALSE]
    /\ hasReject = [c \in Calls |-> FALSE]
    /\ serverResults = [c \in Calls |-> EmptyMap]
    /\ sent = [c \in Calls |-> 0]
    /\ arrived = [c \in Calls |-> <<>>]
    /\ ret = [c \in Calls |-> NoRet]
    /\ authRet = [c \in Calls |-> NoAuthRet]
    /\ finished = [c \in Calls |-> -1]

\* The steps of request c, its credentials drawn from reqs.
CallStep(c, reqs) ==
    \/ \E r \in reqs : Begin(c, r)
    \/ \E i \in 1..Len(Servers), out \in ExchangeOutcomes(timeout) : Task(c, i, out)
    \/ Close(c)
    \/ Recv(c)
    \/ LoopExit(c)
    \/ Finish(c)
    \/ Return(c)

\* Requests of the concurrent specification: no header, a header without
\* colon, two credential pairs, and a user name too long for its attribute.
Requests ==
    {NoReq,
     [present |-> TRUE, cs |-> <<"a">>],
     [present |-> TRUE, cs |-> <<"a", ":", "a">>],
     [present |-> TRUE, cs |-> <<"a", "a", ":">>],
     [present |-> TRUE, cs |-> <<"X", ":", "a">>]}

\* Configurations of the concurrent specification: one server with the cache
\* enabled for one second, disabled, or left unset.
Configs ==
    {[Servers |-> <<"s1:1812">>, Secret |-> "secret", Timeout |-> "", CacheTTL |-> ttl] :
        ttl \in {"1s", "0s", ""}}

Init == InitWith(Configs, {[c \in Calls |-> NoReq]})

Next ==
    \/ Provision
    \/ \E c \in Calls : CallStep(c, Requests)
    \/ Tick
    \/ Janitor

Spec == Init /\ [][Next]_vars

\* ------------------------------------------------- one request at a time
\* Every server list of at most MaxServers valid addresses, duplicates
\* included, without a cache; the requests are served one after the other.
FanConfigs ==
    {[Servers |-> ss, Secret |-> "secret", Timeout |-> "5s", CacheTTL |-> ttl] :
        ss \in SeqsUpTo({"s1:1812", "s2:1812"}, MaxServers) \ {<<>>},
        ttl \in {"0s", ""}}

\* Without a cache one credential pair stands for all.
FanRequests == Requests \ {[present |-> TRUE, cs |-> <<"a", "a", ":">>]}

InitFan == InitWith(FanConfigs, {[c \in Calls |-> NoReq]})

NextFan ==
    \/ Provision
    \/ CallStep(1, FanRequests)

SpecFan == InitFan /\ [][NextFan]_vars

\* The same, with the scheduling the Go runtime gives: every exchange
\* returns, by its deadline at the latest, and its goroutine goes on; the
\* closer and the collecting loop are not starved.
FairFan ==
    /\ \A i \in 1..MaxLiveServers :
           WF_vars(\E out \in ExchangeOutcomes(timeout) : Task(1, i, out))
    /\ WF_vars(Close(1))
    /\ WF_vars(Recv(1))
    /\ WF_vars(LoopExit(1))

\* Its server lists have at most MaxLiveServers entries.
LiveConfigs == {cfg \in FanConfigs : Len(cfg.Servers) <= MaxLiveServers}

InitLive == InitWith(LiveConfigs, {[c \in Calls |-> NoReq]})

SpecFanLive == InitLive /\ [][NextFan]_vars /\ FairFan

\* ------------------------------------------------------- the cache key
\* Two requests with any decoded credential strings of at most MaxHdrLen
\* characters; each goes through BasicAuth and the key construction.
KeyRequests == {[present |-> TRUE, cs |-> cs] : cs \in SeqsUpTo(Chars, MaxHdrLen)}

InitKey ==
    InitWith({[Servers |-> <<"s1:1812">>, Secret |-> "secret", Timeout |-> "", CacheTTL |-> "1s"]},
             [Calls -> KeyRequests])

\* Authenticate from the credentials to the cache key (caddyfile.go:198-204).
MakeKey(c) ==
    /\ pc[c] = "idle"
    /\ LET ba == BasicAuth(req[c])
       IN /\ user' = [user EXCEPT ![c] = ba.user]
          /\ pass' = [pass EXCEPT ![c] = ba.pass]
          /\ cacheKey' = [cacheKey EXCEPT ![c] =
                 IF ba.ok THEN CacheKey(ba.user, ba.pass) ELSE <<>>]
          /\ pc' = [pc EXCEPT ![c] = IF ba.ok THEN "keyed" ELSE "done"]
    /\ UNCHANGED <<cfgVars, cache, now, req, looked, fanVars, ret, authRet, finished>>

NextKey == \E c \in Calls : MakeKey(c)

SpecKey == InitKey /\ [][NextKey]_vars

\* ------------------------------------------------------------- the setup
\* The provider is configured by a Caddyfile or by JSON, provisioned, and
\* then serves requests one after the other.  The addresses: a good one, one
\* without a port, one without a host, and one with a space in the host.
SetupAddrs == {"s1:1812", "s1", ":1812", "s 1:1812"}
SetupServers == SeqsUpTo(SetupAddrs, MaxCfgServers)
SetupSecrets == {"", "secret"}
SetupTimeouts == {"", "5s", "abc"}
SetupTTLs == {"", "1s", "abc"}

Caddyfiles ==
    {[servers |-> ss, secret |-> sec, timeout |-> t, cache_ttl |-> ttl] :
        ss \in SetupServers, sec \in SetupSecrets,
        t \in SetupTimeouts, ttl \in SetupTTLs}

JSONConfigs ==
    {[Servers |-> ss, Secret |-> sec, Timeout |-> t, CacheTTL |-> ttl] :
        ss \in SetupServers, sec \in SetupSecrets,
        t \in SetupTimeouts, ttl \in SetupTTLs}

SetupRequests == {NoReq, [present |-> TRUE, cs |-> <<"a", ":", "a">>]}

InitSetup ==
    /\ phase = "raw"
    /\ Servers = <<>>
    /\ Secret = ""
    /\ Timeout = ""
    /\ CacheTTL = ""
    /\ cache = NilCache
    /\ now = 0
    /\ pc = [c \in Calls |-> "idle"]
    /\ req = [c \in Calls |-> NoReq]
    /\ user = [c \in Calls |-> <<>>]
    /\ pass = [c \in Calls |-> <<>>]
    /\ cacheKey = [c \in Calls |-> <<>>]
    /\ looked = [c \in Calls |-> "none"]
    /\ task = [c \in Calls |-> <<>>]
    /\ ch = [c \in Calls |-> <<>>]
    /\ closed = [c \in Calls |-> FALSE]
    /\ wg = [c \in Calls |-> 0]
    /\ hasAccessAccept = [c \in Calls |-> FALSE]
    /\ hasReject = [c \in Calls |-> FALSE]
    /\ serverResults = [c \in Calls |-> EmptyMap]
    /\ sent = [c \in Calls |-> 0]
    /\ arrived = [c \in Calls |-> <<>>]
    /\ ret = [c \in Calls |-> NoRet]
    /\ authRet = [c \in Calls |-> NoAuthRet]
    /\ finished = [c \in Calls |-> -1]

NextSetup ==
    \/ \E h \in Caddyfiles : LoadCaddyfile(h)
    \/ \E cfg \in JSONConfigs : LoadJSON(cfg)
    \/ Provision
    \/ CallStep(1, SetupRequests)

SpecSetup == InitSetup /\ [][NextSetup]_vars


\* =================================================================
\* Properties of checkRadiusConcurrent, checked under SpecFan.
\* =================================================================

\* The outcomes the per-server goroutines of request c have produced.
DoneTasks(c) == {i \in DOMAIN task[c] : task[c][i].st = "done"}
AnyAccept(c) == \E i \in DoneTasks(c) : task[c][i].res.code = CodeAccessAccept
AnyReject(c) == \E i \in DoneTasks(c) : task[c][i].res.code = CodeAccessReject
FannedOut(c) == task[c] # <<>>

\* C1: whenever checkRadiusConcurrent has returned and at least one server
\* answered Access-Accept, the return value is (true, nil), whatever the
\* other servers answered, wherever the accepting server stands in the list
\* and in whatever order the results arrived.
C1_AcceptWins ==
    \A c \in Calls :
        (pc[c] = "returned" /\ AnyAccept(c)) =>
            (ret[c].ok /\ ret[c].err = "nil")

\* A return of (true, nil) where the first server failed, the second one
\* accepted and a third one rejected.
C1_Witness ==
    \E c \in Calls :
        /\ pc[c] = "returned"
        /\ Len(task[c]) = 3
        /\ task[c][1].res.err = "err"
        /\ task[c][2].res.code = CodeAccessAccept
        /\ task[c][3].res.code = CodeAccessReject
        /\ ret[c].ok

\* C2: whenever checkRadiusConcurrent has returned, no server accepted and
\* at least one rejected, the return value is (false, nil), even when every
\* other server failed or answered another code.
C2_RejectWithoutAccept ==
    \A c \in Calls :
        (pc[c] = "returned" /\ ~AnyAccept(c) /\ AnyReject(c)) =>
            (~ret[c].ok /\ ret[c].err = "nil")

\* A return of (false, nil) from one Reject next to a transport error and
\* an Access-Challenge.
C2_Witness ==
    \E c \in Calls :
        /\ pc[c] = "returned"
        /\ Len(task[c]) = 3
        /\ task[c][1].res.err = "err"
        /\ task[c][2].res.code = CodeAccessChallenge
        /\ task[c][3].res.code = CodeAccessReject
        /\ ret[c] = [ok |-> FALSE, err |-> "nil", items |-> {}]

\* C3: whenever checkRadiusConcurrent has returned after a fan-out in which
\* no server answered Accept or Reject, it returned false with a non-nil
\* error; and it returns a non-nil error only then, or without any fan-out
\* when the server list is empty or the packet cannot be built.
C3_ErrorIffIndeterminate ==
    \A c \in Calls :
        pc[c] = "returned" =>
            /\ (FannedOut(c) /\ ~AnyAccept(c) /\ ~AnyReject(c)) =>
                   (~ret[c].ok /\ ret[c].err # "nil")
            /\ ret[c].err # "nil" =>
                   /\ ~ret[c].ok
                   /\ \/ FannedOut(c) /\ ~AnyAccept(c) /\ ~AnyReject(c)
                      \/ /\ ~FannedOut(c)
                         /\ sent[c] = 0
                         /\ Len(Servers) = 0 \/ PacketError(user[c], pass[c]) # "nil"

\* The error return after one transport error and one Access-Challenge.
C3_Witness ==
    \E c \in Calls :
        /\ pc[c] = "returned"
        /\ Len(task[c]) = 2
        /\ task[c][1].res.err = "err"
        /\ task[c][2].res.code = CodeAccessChallenge
        /\ ret[c].err = "issues"

\* C4: checkRadiusConcurrent does not return before every goroutine of the
\* attempt has finished: when it has returned after a fan-out, one goroutine
\* per configured server has completed its exchange, and the verdict is the
\* one all their outcomes determine; an Accept does not end the wait early.
C4_ReturnsAfterAllTasks ==
    \A c \in Calls :
        (pc[c] = "returned" /\ FannedOut(c)) =>
            /\ Len(task[c]) = Len(Servers)
            /\ DoneTasks(c) = DOMAIN task[c]
            /\ sent[c] = Len(Servers)
            /\ wg[c] = 0
            /\ ch[c] = <<>>
            /\ ret[c].ok = AnyAccept(c)
            /\ (ret[c].err = "nil") = (AnyAccept(c) \/ AnyReject(c))

\* A return of (true, nil) where the first of three servers accepted and
\* the two others have answered as well.
C4_Witness ==
    \E c \in Calls :
        /\ pc[c] = "returned"
        /\ Len(task[c]) = 3
        /\ task[c][1].res.code = CodeAccessAccept
        /\ DoneTasks(c) = {1, 2, 3}
        /\ ret[c].ok


\* Request c carries credentials (its key is built, and holds a colon).
HasCreds(c) == cacheKey[c] # <<>>

\* The cache TTL is zero or unset, and Provision has succeeded.
CacheDisabled == phase = "ready" /\ ParseDuration(CacheTTL).d = 0

\* C8 as stated: when the cache TTL is zero or unset there is no cache, and
\* every request that carried credentials has made one exchange with every
\* configured server when it is over.
C8_Original ==
    CacheDisabled =>
        /\ cache.nil
        /\ \A c \in Calls :
              (pc[c] = "done" /\ HasCreds(c)) => sent[c] = Len(Servers)

\* C8, amended: when the cache TTL is zero or unset there is no cache and
\* nothing is memoized; every request that carried credentials from which
\* the Access-Request packet can be built has made one exchange with every
\* configured server when it is over, and a request whose packet cannot be
\* built has made none and is answered with an error, never with a verdict
\* of an earlier request.
C8_NoCacheNoMemo ==
    CacheDisabled =>
        /\ cache = NilCache
        /\ \A c \in Calls :
              (pc[c] = "done" /\ HasCreds(c)) =>
                  /\ looked[c] = "none"
                  /\ IF PacketError(user[c], pass[c]) = "nil"
                     THEN sent[c] = Len(Servers) /\ ret[c].err \in {"nil", "issues"}
                     ELSE sent[c] = 0 /\ ~authRet[c].auth /\ authRet[c].status = 500

\* A request with credentials is over, without a cache, after an exchange
\* with each of three configured servers, the second a duplicate of the
\* first, and is answered by this very fan-out.
C8_Witness ==
    /\ CacheDisabled
    /\ CacheTTL = "0s"
    /\ Servers = <<"s1:1812", "s1:1812", "s2:1812">>
    /\ \E c \in Calls :
          /\ pc[c] = "done"
          /\ HasCreds(c)
          /\ looked[c] = "none"
          /\ sent[c] = 3
          /\ ret[c].ok /\ authRet[c].auth


\* =================================================================
\* Properties of Authenticate and the verdict cache, checked under Spec.
\* =================================================================

\* Request c takes its first step, and its last one after the fan-out.
Begins(c) == pc[c] = "idle" /\ pc'[c] # "idle"
Finishes(c) == pc[c] = "returned" /\ pc'[c] = "done"

\* Cache ca holds an item for k that has not outlived its TTL at time t.
FreshIn(ca, k, t) ==
    /\ ~ca.nil
    /\ k \in DOMAIN ca.items
    /\ t <= ca.items[k].Expiration

\* C5 as stated: with caching enabled, when a request whose resolution was
\* the error case has been handled, the cache holds no verdict for its
\* credentials (so that the next request with them fans out again).
C5_Original ==
    [][\A c \in Calls :
          (Finishes(c) /\ ret[c].err # "nil" /\ ~cache.nil) =>
              ~FreshIn(cache', cacheKey[c], now')]_vars

\* C5, amended: a request whose resolution was the error case stores
\* nothing, it leaves the cache exactly as it was; and every request with
\* credentials that finds no fresh verdict for them goes through
\* checkRadiusConcurrent again, fanning out to every server when the packet
\* can be built.
C5_ErrorStoresNothing ==
    [][\A c \in Calls :
          /\ (Finishes(c) /\ ret[c].err # "nil") => cache' = cache
          /\ (Begins(c) /\ HasCreds(c)' /\ ~FreshIn(cache, cacheKey'[c], now)) =>
                 IF PacketError(user'[c], pass'[c]) = "nil"
                 THEN pc'[c] = "collect" /\ Len(task'[c]) = Len(Servers)
                 ELSE pc'[c] = "returned" /\ ret'[c].err # "nil"]_vars

\* An error-case request is over, the cache has nothing for its credentials,
\* and the next request with the same credentials is fanning out.
C5_Witness ==
    \E c, d \in Calls :
        /\ c # d
        /\ ~cache.nil
        /\ pc[c] = "done" /\ ret[c].err = "issues"
        /\ cacheKey[c] \notin DOMAIN cache.items
        /\ pc[d] = "collect" /\ cacheKey[d] = cacheKey[c]
        /\ finished[c] < now

C7_NoStaleVerdict ==
    /\ [](\A k \in DOMAIN cache.items :
            /\ cache.items[k].Expiration > 0
            /\ cache.items[k].Expiration <= now + cache.defaultExpiration)
    /\ [][\A c \in Calls :
            (Begins(c) /\ HasCreds(c)' /\ ~cache.nil) =>
                LET k == cacheKey'[c]
                IN /\ pc'[c] = "done" =>
                          (k \in DOMAIN cache.items /\ now <= cache.items[k].Expiration)
                   /\ (k \in DOMAIN cache.items /\ now > cache.items[k].Expiration) =>
                          (/\ pc'[c] = "collect"
                           /\ Len(task'[c]) = Len(Servers)
                           /\ sent'[c] = 0)]_vars

\* A request is fanning out although the cache still holds an item for its
\* credentials: the item has outlived its TTL and is not yet reclaimed.
C7_Witness ==
    \E c \in Calls :
        /\ pc[c] = "collect"
        /\ looked[c] = "expired"
        /\ cacheKey[c] \in DOMAIN cache.items
        /\ now > cache.items[cacheKey[c]].Expiration

C9_KeysDistinct ==
    \A c, d \in Calls :
        (/\ pc[c] = "keyed" /\ pc[d] = "keyed"
         /\ <<user[c], pass[c]>> # <<user[d], pass[d]>>) =>
            cacheKey[c] # cacheKey[d]

\* Two keyed requests whose passwords hold the separator: user "a" with
\* password ":", and the empty user name with password "a:".
C9_Witness ==
    \E c, d \in Calls :
        /\ pc[c] = "keyed" /\ pc[d] = "keyed"
        /\ user[c] = <<"a">> /\ pass[c] = <<":">>
        /\ user[d] = <<>> /\ pass[d] = <<"a", ":">>
        /\ cacheKey[c] # cacheKey[d]

\* =================================================================
\* What the cache holds, checked under Spec.
\* =================================================================

\* C11: the cache holds successful credentials only: every item of the
\* cache has the verdict true, and the credentials of a request that the
\* servers rejected have no item.
C11_Original ==
    /\ \A k \in DOMAIN cache.items : cache.items[k].Object = TRUE
    /\ \A c \in Calls :
          (pc[c] = "done" /\ ret[c] = [ok |-> FALSE, err |-> "nil", items |-> {}]) =>
              cacheKey[c] \notin DOMAIN cache.items

\* =================================================================
\* The setup, checked under SpecSetup.
\* =================================================================

\* An address that does not parse as host:port with a host and a port.
Unparseable(addr) ==
    SplitHostPort(addr).err \/ SplitHostPort(addr).host = "" \/ SplitHostPort(addr).port = ""

\* A configuration the setup has to refuse.
Refusable(servers, secret) ==
    \/ Len(servers) = 0
    \/ secret = ""
    \/ \E i \in 1..Len(servers) : Unparseable(servers[i])

\* C12: the setup fails whenever the server list is empty, the secret is
\* empty or some server address is unparseable: parseCaddyfile fails on such
\* a block, Provision fails on such a configuration, and no such
\* configuration is put into service.
C12_Original ==
    [][/\ \A h \in Caddyfiles :
             (LoadCaddyfile(h) /\ Refusable(h.servers, h.secret)) => phase' = "failed"
       /\ (phase = "new" /\ phase' # "new" /\ Refusable(Servers, Secret)) =>
             phase' = "failed"]_vars

\* C20: once Provision has succeeded, an attempt that fans out runs its
\* exchanges under the configured timeout, a duration that parsed (3s when
\* the timeout was unset), and never under a deadline of zero.
C20_Original ==
    \A c \in Calls :
        (phase = "ready" /\ FannedOut(c)) =>
            /\ ~ParseDuration(Timeout).err
            /\ timeout > 0

\* =================================================================
\* The fan-out in detail, checked under SpecFan.
\* =================================================================

\* The category of one per-server outcome.
Category(res) ==
    IF res.code = CodeAccessAccept THEN "accept"
    ELSE IF res.code = CodeAccessReject THEN "reject"
    ELSE "other"

\* The multiset of the outcome categories of request c: how many goroutines
\* ended in each category, whatever their server and their order.
OutcomeBag(c) ==
    [cat \in {"accept", "reject", "other"} |->
        Cardinality({i \in DoneTasks(c) : Category(task[c][i].res) = cat})]

\* The (verdict, error is nil) a multiset of categories stands for.
VerdictOfBag(b) ==
    IF b["accept"] > 0 THEN <<TRUE, TRUE>>
    ELSE IF b["reject"] > 0 THEN <<FALSE, TRUE>>
    ELSE <<FALSE, FALSE>>

\* The goroutines whose results the collecting loop has taken from ch.
Received(c) == {arrived[c][j] : j \in 1..(Len(arrived[c]) - Len(ch[c]))}

\* C13: the verdict and the nil-ness of the error that checkRadiusConcurrent
\* returns are a function of the multiset of outcome categories alone, for
\* every server list and every order of arrival; and while the loop runs,
\* its two flags say whether some result received so far was an Accept or a
\* Reject, in whatever order the results came.
C13_OrderIndependent ==
    \A c \in Calls :
        /\ (pc[c] = "returned" /\ FannedOut(c)) =>
               <<ret[c].ok, ret[c].err = "nil">> = VerdictOfBag(OutcomeBag(c))
        /\ FannedOut(c) =>
               /\ hasAccessAccept[c] =
                      (\E i \in Received(c) : Category(task[c][i].res) = "accept")
               /\ hasReject[c] =
                      (\E i \in Received(c) : Category(task[c][i].res) = "reject")

\* A return of (true, nil) where the results arrived in the order third,
\* first, second server: an error, a Reject, and the Accept last but one in
\* the list and last to arrive.
C13_Witness ==
    \E c \in Calls :
        /\ pc[c] = "returned"
        /\ Servers = <<"s1:1812", "s2:1812", "s1:1812">>
        /\ Len(task[c]) = 3
        /\ arrived[c] = <<3, 1, 2>>
        /\ task[c][1].res.code = CodeAccessReject
        /\ task[c][2].res.code = CodeAccessAccept
        /\ task[c][3].res.err = "err"
        /\ ret[c].ok /\ ret[c].err = "nil"

\* How often goroutine i of request c has put a result on ch.
Deliveries(c, i) == Cardinality({j \in 1..Len(arrived[c]) : arrived[c][j] = i})

\* C14: in an attempt that fans out, one goroutine is started per entry of
\* the server list, duplicates included; a goroutine that has finished has
\* made one exchange, with the server of its entry, and delivered one
\* outcome, and one that has not finished has made and delivered none; and
\* what a finished goroutine delivered, an error included, stays as it is
\* for the rest of the attempt: its server is not queried again.
C14_OneExchangePerEntry ==
    /\ [](\A c \in Calls :
            FannedOut(c) =>
                /\ Len(task[c]) = Len(Servers)
                /\ sent[c] = Cardinality(DoneTasks(c))
                /\ Len(arrived[c]) = sent[c]
                /\ \A i \in DOMAIN task[c] :
                       /\ Deliveries(c, i) = IF i \in DoneTasks(c) THEN 1 ELSE 0
                       /\ i \in DoneTasks(c) => task[c][i].res.server = Servers[i])
    /\ [][\A c \in Calls :
            \A i \in DoneTasks(c) :
                task'[c] # <<>> =>
                    (task'[c][i] = task[c][i] /\ sent'[c] <= Len(Servers))]_vars

\* An attempt over a list that names the same server twice has returned
\* after two exchanges, both of which failed.
C14_Witness ==
    \E c \in Calls :
        /\ pc[c] = "returned"
        /\ Servers = <<"s1:1812", "s1:1812">>
        /\ Len(task[c]) = 2
        /\ task[c][1].res.err = "err" /\ task[c][2].res.err = "err"
        /\ sent[c] = 2
        /\ Len(arrived[c]) = 2
        /\ ret[c].err = "issues"

\* The classes the claim allows for the outcome of one exchange: "error"
\* for a transport error, "unknown code" for a response, whose code in the
\* error case is neither Accept nor Reject; a response with code 0 may also
\* count as "no response".
ClaimedKinds(res) ==
    IF res.err # "nil" THEN {"error"}
    ELSE IF res.code = 0 THEN {"unknown code", "no response"}
    ELSE {"unknown code"}

\* C15 as stated: in the error case the summary has one item for every
\* entry of the server list, naming its server and classifying the outcome
\* of its exchange, and as many items as there are configured servers.
C15_Original ==
    \A c \in Calls :
        (pc[c] = "returned" /\ ret[c].err = "issues") =>
            /\ Cardinality(ret[c].items) = Len(Servers)
            /\ \A i \in 1..Len(Servers) :
                   \E it \in ret[c].items :
                       /\ it.server = Servers[i]
                       /\ it.kind \in ClaimedKinds(task[c][i].res)

\* The goroutine whose result for the address was the last to arrive.
LastFrom(c, server) ==
    LET js == {j \in 1..Len(arrived[c]) : Servers[arrived[c][j]] = server}
    IN arrived[c][CHOOSE j \in js : \A k \in js : k <= j]

\* C15, amended: in the error case the summary has exactly one item for
\* every distinct address of the server list, as many items as there are
\* distinct addresses; the item classifies the result that arrived last
\* from that address: "error" for a transport error, "no response" for a
\* response with code 0, "unknown code" for a response with another code.
C15_ItemPerAddress ==
    \A c \in Calls :
        (pc[c] = "returned" /\ ret[c].err = "issues") =>
            /\ {it.server : it \in ret[c].items} = Range(Servers)
            /\ Cardinality(ret[c].items) = Cardinality(Range(Servers))
            /\ \A it \in ret[c].items :
                   LET res == task[c][LastFrom(c, it.server)].res
                   IN it.kind = IF res.err # "nil" THEN "error"
                                ELSE IF res.code = 0 THEN "no response"
                                ELSE "unknown code"

\* The error return over three entries, two of them the same address: the
\* duplicate's results were an Access-Challenge and then an error, the
\* other server answered with code 0, and the summary has two items.
C15_Witness ==
    \E c \in Calls :
        /\ pc[c] = "returned"
        /\ Servers = <<"s1:1812", "s1:1812", "s2:1812">>
        /\ Len(task[c]) = 3
        /\ arrived[c] = <<2, 1, 3>>
        /\ task[c][1].res.err = "err"
        /\ task[c][2].res.code = CodeAccessChallenge
        /\ task[c][3].res = [code |-> 0, err |-> "nil", server |-> "s2:1812"]
        /\ ret[c].err = "issues"
        /\ ret[c].items = {[server |-> "s1:1812", kind |-> "error"],
                           [server |-> "s2:1812", kind |-> "no response"]}

\* =================================================================
\* Termination of the fan-out, checked under SpecFanLive.
\* =================================================================

\* C16: checkRadiusConcurrent terminates when every exchange returns by its
\* deadline.  A goroutine that has not delivered yet always finds room on
\* ch, whatever its siblings have done; ch is closed only when the wait
\* group is at zero and every goroutine has finished, and stays closed for
\* the rest of the attempt; and an attempt that has fanned out gets to its
\* return.
C16_Terminates ==
    /\ [](\A c \in Calls :
            \A i \in DOMAIN task[c] :
                task[c][i].st = "run" =>
                    (Len(ch[c]) < ChanCap /\ ~closed[c]))
    /\ [][\A c \in Calls :
            /\ (~closed[c] /\ closed'[c]) =>
                   (wg[c] = 0 /\ DoneTasks(c) = DOMAIN task[c])
            /\ closed[c] => (closed'[c] \/ task'[c] = <<>>)]_vars
    /\ \A c \in Calls : (pc[c] = "collect") ~> (pc[c] = "returned")

\* The attempt has returned over two servers of which the first was the
\* last to deliver, an error: ch is closed and drained.
C16_Witness ==
    \E c \in Calls :
        /\ pc[c] = "returned"
        /\ Len(task[c]) = 2
        /\ arrived[c] = <<2, 1>>
        /\ task[c][1].res.err = "err"
        /\ closed[c] /\ ch[c] = <<>> /\ wg[c] = 0

\* =================================================================
\* Lookups, stores and answers, checked under Spec.
\* =================================================================

\* The keys whose item differs between two caches, or exists only in the
\* second.
Written(ca, cb) ==
    {k \in DOMAIN cb.items : k \notin DOMAIN ca.items \/ cb.items[k] # ca.items[k]}

\* C17: the first step of Authenticate, the lookup included, leaves the
\* cache as it is, verdicts and expiration times alike, and a request that
\* is answered from the cache is over with that step: it never reaches the
\* store.  An item is written only when a request that had missed the cache
\* is handled after a fan-out to every server in which some server answered
\* Accept or Reject.
C17_HitLeavesCache ==
    [][/\ \A c \in Calls :
             Begins(c) =>
                 /\ cache' = cache
                 /\ looked'[c] = "hit" =>
                        (pc'[c] = "done" /\ ret'[c] = NoRet /\ sent'[c] = 0)
       /\ Written(cache, cache') # {} =>
             \E c \in Calls :
                 /\ Finishes(c)
                 /\ looked[c] \in {"absent", "expired"}
                 /\ Len(task[c]) = Len(Servers)
                 /\ DoneTasks(c) = DOMAIN task[c]
                 /\ AnyAccept(c) \/ AnyReject(c)
                 /\ ret[c].err = "nil"
                 /\ Written(cache, cache') = {cacheKey[c]}]_vars

\* One second after a verdict was stored a request has been answered from
\* the cache, and the item still expires one TTL after the store.
C17_Witness ==
    \E c, d \in Calls :
        /\ c # d
        /\ now = 1
        /\ pc[d] = "done" /\ ret[d].err = "nil" /\ finished[d] = 0
        /\ pc[c] = "done" /\ looked[c] = "hit" /\ cacheKey[c] = cacheKey[d]
        /\ cacheKey[c] \in DOMAIN cache.items
        /\ cache.items[cacheKey[c]] = [Object |-> ret[d].ok, Expiration |-> 1]

\* The cache keys of the credential pairs that can be authenticated.
PairKeys ==
    {CacheKey(BasicAuth(r).user, BasicAuth(r).pass) :
        r \in {q \in Requests : BasicAuth(q).ok}}

\* C18: with requests running concurrently, every item of the cache stands
\* under the key of a credential pair, and whenever an item is written it is
\* written by a request for exactly that pair, with the verdict that this
\* request's own fan-out resolved to (true when one of its servers accepted,
\* false when none accepted and one rejected) and expiring one TTL later;
\* the items of all other keys stay as they are, and an item leaves the
\* cache only when it has expired.
C18_EntriesAreOwnVerdicts ==
    /\ [](DOMAIN cache.items \subseteq PairKeys)
    /\ [][/\ \A k \in Written(cache, cache') :
                \E c \in Calls :
                    /\ Finishes(c)
                    /\ k = CacheKey(user[c], pass[c])
                    /\ BasicAuth(req[c]).ok
                    /\ user[c] = BasicAuth(req[c]).user
                    /\ pass[c] = BasicAuth(req[c]).pass
                    /\ AnyAccept(c) \/ AnyReject(c)
                    /\ cache'.items[k] =
                           [Object |-> AnyAccept(c),
                            Expiration |-> now + cache.defaultExpiration]
                    /\ Written(cache, cache') = {k}
          /\ \A k \in DOMAIN cache.items :
                k \notin DOMAIN cache'.items => now > cache.items[k].Expiration]_vars

\* Two overlapping requests for different credential pairs were handled in
\* the same second, one accepted and one rejected, and the cache holds the
\* verdict of each under its own key.
C18_Witness ==
    \E c, d \in Calls :
        /\ c # d
        /\ pc[c] = "done" /\ pc[d] = "done"
        /\ looked[c] = "absent" /\ looked[d] = "absent"
        /\ finished[c] = finished[d]
        /\ cacheKey[c] # cacheKey[d]
        /\ ret[c] = [ok |-> TRUE, err |-> "nil", items |-> {}]
        /\ ret[d] = [ok |-> FALSE, err |-> "nil", items |-> {}]
        /\ DOMAIN cache.items = {cacheKey[c], cacheKey[d]}
        /\ cache.items[cacheKey[c]].Object
        /\ ~cache.items[cacheKey[d]].Object

\* C19: a request is reported as authenticated only when it carried
\* credentials and either its own fan-out had an Access-Accept, or the
\* cache held for exactly its credential pair a verdict true that had not
\* outlived its TTL; and an item with the verdict true is only ever written
\* by a request for that pair whose own fan-out had an Access-Accept,
\* expiring one TTL later.  A request without credentials, a rejected one
\* and one that ended in the error case are not authenticated.
C19_AuthenticatedOnlyByAccept ==
    /\ [](\A c \in Calls :
            /\ authRet[c].auth =>
                   /\ pc[c] = "done"
                   /\ BasicAuth(req[c]).ok
                   /\ authRet[c].id = BasicAuth(req[c]).user
                   /\ looked[c] = "hit" \/ (ret[c].ok /\ ret[c].err = "nil")
            /\ (pc[c] = "done" /\ ~BasicAuth(req[c]).ok) => ~authRet[c].auth
            /\ (pc[c] = "done" /\ ret[c].err = "nil" /\ ~ret[c].ok) => ~authRet[c].auth
            /\ (pc[c] = "done" /\ ret[c].err \notin {"nil", "none"}) => ~authRet[c].auth)
    /\ [][/\ \A c \in Calls :
                /\ (Finishes(c) /\ authRet'[c].auth) => AnyAccept(c)
                /\ (Begins(c) /\ authRet'[c].auth) =>
                       LET ba == BasicAuth(req'[c])
                           k == CacheKey(ba.user, ba.pass)
                       IN /\ ba.ok
                          /\ ~cache.nil
                          /\ k \in DOMAIN cache.items
                          /\ cache.items[k].Object
                          /\ now <= cache.items[k].Expiration
          /\ \A k \in Written(cache, cache') :
                cache'.items[k].Object =>
                    \E c \in Calls :
                        /\ Finishes(c)
                        /\ AnyAccept(c)
                        /\ k = CacheKey(BasicAuth(req[c]).user, BasicAuth(req[c]).pass)
                        /\ cache'.items[k].Expiration = now + cache.defaultExpiration]_vars

\* A request is authenticated from the cache one second after the server
\* accepted the same credentials for another request.
C19_Witness ==
    \E c, d \in Calls :
        /\ c # d
        /\ now = 1
        /\ pc[d] = "done" /\ ret[d].ok /\ finished[d] = 0 /\ authRet[d].auth
        /\ pc[c] = "done" /\ looked[c] = "hit" /\ req[c] = req[d]
        /\ sent[c] = 0
        /\ authRet[c] = [auth |-> TRUE, status |-> 0, id |-> user[d]]

====
